---- MODULE Spec2Model ----
(***************************************************************************)
(* mdbook-metadata: the metadata preprocessor of src/src/metadata.rs.      *)
(*                                                                         *)
(* Text is modelled as a sequence of one-character strings, so that the    *)
(* regular expressions, str::lines, str::trim and html_escape::encode_safe *)
(* are computed character by character as the code computes them.          *)
(***************************************************************************)
EXTENDS Integers, Sequences, FiniteSets, TLC

VARIABLES
    book,               \* run's `book`: the items in for_each_mut order
    orig,               \* the book as it was passed to run
    valid_tags,         \* Metadata.valid_tags: NoTags or SomeTags(keys)
    continue_on_error,  \* Metadata.continue_on_error
    pos,                \* number of items for_each_mut has visited
    errors,             \* run's `errors` vector
    step,               \* the locals of the last closure call
    ret                 \* what run returned, tag "Running" before that

vars == <<book, orig, valid_tags, continue_on_error, pos, errors, step, ret>>

----------------------------------------------------------------------------
(* Bounds of the model *)

MaxLines == 4       \* lines of a generated single-chapter document
MaxItems == 2       \* items of a generated multi-item book

----------------------------------------------------------------------------
(* Text helpers: str::trim_start, str::trim, str::lines, slice::join *)

WS == {" ", "\t", "\n", "\r"}

RECURSIVE TrimStart(_)
TrimStart(s) ==
    IF s # <<>> /\ Head(s) \in WS THEN TrimStart(Tail(s)) ELSE s

RECURSIVE TrimEnd(_)
TrimEnd(s) ==
    IF s # <<>> /\ s[Len(s)] \in WS THEN TrimEnd(SubSeq(s, 1, Len(s) - 1)) ELSE s

Trim(s) == TrimEnd(TrimStart(s))

\* the pieces of s between "\n" characters (str::split('\n'))
RECURSIVE SplitNL(_)
SplitNL(s) ==
    LET nl == {i \in 1..Len(s) : s[i] = "\n"} IN
    IF nl = {} THEN <<s>>
    ELSE LET i == CHOOSE j \in nl : \A k \in nl : j <= k IN
         <<SubSeq(s, 1, i - 1)>> \o SplitNL(SubSeq(s, i + 1, Len(s)))

\* a line that was ended by "\n" loses one "\r" before it
StripCR(l) ==
    IF l # <<>> /\ l[Len(l)] = "\r" THEN SubSeq(l, 1, Len(l) - 1) ELSE l

\* str::lines: split at "\n" or "\r\n", no empty line after a final "\n"
Lines(s) ==
    LET p == SplitNL(s)
        n == Len(p)
        q == [i \in 1..n |-> IF i < n THEN StripCR(p[i]) ELSE p[i]]
    IN  IF p[n] = <<>> THEN SubSeq(q, 1, n - 1) ELSE q

\* [String]::join(sep)
RECURSIVE Join(_, _)
Join(ss, sep) ==
    IF ss = <<>> THEN <<>>
    ELSE IF Len(ss) = 1 THEN ss[1]
    ELSE ss[1] \o sep \o Join(Tail(ss), sep)

----------------------------------------------------------------------------
(* METADATA_BLOCK_RE = (?s)---(.*?)--- *)

Marker == <<"-", "-", "-">>

\* the positions at or after `from` where the three hyphens occur
MarkerAt(s, from) ==
    {i \in from..(Len(s) - 2) : SubSeq(s, i, i + 2) = Marker}

Least(S) == CHOOSE i \in S : \A j \in S : i <= j

\* The leftmost match: it opens at the first "---" and, (.*?) being lazy,
\* closes at the first "---" that starts after the opening one.  When the
\* first "---" has no later "---" no other start has one either.
\* [found, open, close]: open and close are where the two markers start.
METADATA_BLOCK_RE(s) ==
    LET opens == MarkerAt(s, 1) IN
    IF opens = {} THEN [found |-> FALSE, open |-> 0, close |-> 0]
    ELSE LET o == Least(opens)
             closes == MarkerAt(s, o + 3)
         IN  IF closes = {} THEN [found |-> FALSE, open |-> 0, close |-> 0]
             ELSE [found |-> TRUE, open |-> o, close |-> Least(closes)]

\* capture group 1 of the match
BlockInterior(s) ==
    LET m == METADATA_BLOCK_RE(s) IN SubSeq(s, m.open + 3, m.close - 1)

\* a replace that leaves the closing marker in the text
ReplaceBlockKeepClose(s) ==
    LET m == METADATA_BLOCK_RE(s) IN
    IF m.found
    THEN SubSeq(s, 1, m.open - 1) \o SubSeq(s, m.close, Len(s))
    ELSE s

\* Regex::replace(content, ""): the first match only is removed
ReplaceBlock(s) ==
    LET m == METADATA_BLOCK_RE(s) IN
    IF m.found
    THEN SubSeq(s, 1, m.open - 1) \o SubSeq(s, m.close + 3, Len(s))
    ELSE s

----------------------------------------------------------------------------
(* METADATA_LINE_RE = ^(.+?):\s*(.+)$ on one line (no "\n" in it) *)

\* the colons that can be the separator: one character at least before
\* them for (.+?) and one at least after them for (.+)
SepColons(line) ==
    {p \in 2..(Len(line) - 1) : line[p] = ":"}

LineMatches(line) == SepColons(line) # {}

\* group 1: (.+?) is lazy, the separator is the first colon that can be one
LineGroup1(line) == SubSeq(line, 1, Least(SepColons(line)) - 1)

\* group 2: \s* is greedy and takes the whitespace after the colon, but
\* gives one character back when nothing would be left for (.+)
LineGroup2(line) ==
    LET after == SubSeq(line, Least(SepColons(line)) + 1, Len(line))
        rest == TrimStart(after)
    IN  IF rest # <<>> THEN rest ELSE <<after[Len(after)]>>

----------------------------------------------------------------------------
(* parse_metadata *)

EmptyMap == [k \in {} |-> <<>>]

\* an insert that keeps the value of a key that is present
InsertKeepFirst(m, k, v) ==
    [x \in (DOMAIN m) \cup {k} |-> IF x \in DOMAIN m THEN m[x] ELSE v]

\* HashMap::insert: a key that is present gets the new value
Insert(m, k, v) ==
    [x \in (DOMAIN m) \cup {k} |-> IF x = k THEN v ELSE m[x]]

\* the loop, the error carrying the trimmed line
RECURSIVE ParseLinesTrimmed(_, _, _)
ParseLinesTrimmed(lines, metadata, coe) ==
    IF lines = <<>> THEN [ok |-> TRUE, metadata |-> metadata, line |-> <<>>]
    ELSE LET line == Head(lines) IN
         IF Trim(line) = <<>>
         THEN ParseLinesTrimmed(Tail(lines), metadata, coe)
         ELSE IF LineMatches(line)
         THEN ParseLinesTrimmed(Tail(lines),
                                Insert(metadata, Trim(LineGroup1(line)),
                                       Trim(LineGroup2(line))),
                                coe)
         ELSE IF coe THEN ParseLinesTrimmed(Tail(lines), metadata, coe)
         ELSE [ok |-> FALSE, metadata |-> EmptyMap, line |-> Trim(line)]

\* the loop over metadata_block.lines()
RECURSIVE ParseLines(_, _, _)
ParseLines(lines, metadata, coe) ==
    IF lines = <<>> THEN [ok |-> TRUE, metadata |-> metadata, line |-> <<>>]
    ELSE LET line == Head(lines) IN
         IF Trim(line) = <<>> THEN ParseLines(Tail(lines), metadata, coe)
         ELSE IF LineMatches(line)
         THEN ParseLines(Tail(lines),
                         Insert(metadata, Trim(LineGroup1(line)),
                                Trim(LineGroup2(line))),
                         coe)
         ELSE IF coe THEN ParseLines(Tail(lines), metadata, coe)
         ELSE [ok |-> FALSE, metadata |-> EmptyMap, line |-> line]

\* Ok((metadata, body)) is [ok |-> TRUE, ...]; Err(ImproperlyFormattedLine(
\* line)) is [ok |-> FALSE, line |-> line, ...]
parse_metadata(content, coe) ==
    LET content_without_metadata == TrimStart(ReplaceBlock(content))
        r == IF METADATA_BLOCK_RE(content).found
             THEN ParseLines(Lines(BlockInterior(content)), EmptyMap, coe)
             ELSE [ok |-> TRUE, metadata |-> EmptyMap, line |-> <<>>]
    IN  [ok |-> r.ok, metadata |-> r.metadata, line |-> r.line,
         body |-> IF r.ok THEN content_without_metadata ELSE <<>>]

----------------------------------------------------------------------------
(* metadata_to_html *)

\* an escape that leaves the slash and the single quote
EncodeCharNoSlash(c) ==
    CASE c = "&"  -> <<"&", "a", "m", "p", ";">>
      [] c = "<"  -> <<"&", "l", "t", ";">>
      [] c = ">"  -> <<"&", "g", "t", ";">>
      [] c = "\"" -> <<"&", "q", "u", "o", "t", ";">>
      [] OTHER    -> <<c>>

\* html_escape::encode_safe on one character
EncodeChar(c) ==
    CASE c = "&"  -> <<"&", "a", "m", "p", ";">>
      [] c = "<"  -> <<"&", "l", "t", ";">>
      [] c = ">"  -> <<"&", "g", "t", ";">>
      [] c = "\"" -> <<"&", "q", "u", "o", "t", ";">>
      [] c = "'"  -> <<"&", "#", "x", "2", "7", ";">>
      [] c = "/"  -> <<"&", "#", "x", "2", "F", ";">>
      [] OTHER    -> <<c>>

RECURSIVE encode_safe(_)
encode_safe(s) ==
    IF s = <<>> THEN <<>> ELSE EncodeChar(Head(s)) \o encode_safe(Tail(s))

Title == <<"t", "i", "t", "l", "e">>

\* the text pushed for one entry
TagLine(key, value) ==
    IF key = Title
    THEN <<"<", "t", "i", "t", "l", "e", ">">> \o encode_safe(value)
         \o <<"<", "/", "t", "i", "t", "l", "e", ">", "\n">>
    ELSE <<"<", "m", "e", "t", "a", " ", "n", "a", "m", "e", "=", "\"">> \o key
         \o <<"\"", " ", "c", "o", "n", "t", "e", "n", "t", "=", "\"">>
         \o encode_safe(value) \o <<"\"", ">", "\n">>

\* the orders a HashMap with these keys can be iterated in
Orders(keys) ==
    {o \in [1..Cardinality(keys) -> keys] :
        \A i, j \in DOMAIN o : i # j => o[i] # o[j]}

\* the loop over the map, taken in the order `order`
RECURSIVE metadata_to_html(_, _)
metadata_to_html(metadata, order) ==
    IF order = <<>> THEN <<>>
    ELSE TagLine(Head(order), metadata[Head(order)])
         \o metadata_to_html(metadata, Tail(order))

----------------------------------------------------------------------------
(* Metadata::run *)

\* Option<Vec<String>>: None, and Some(tags)
NoTags == [some |-> FALSE, tags |-> <<>>]
SomeTags(tags) == [some |-> TRUE, tags |-> tags]

\* valid_tags.contains(k)
Contains(tags, k) == \E i \in DOMAIN tags : tags[i] = k

\* a retain that keeps every entry
RetainAll(metadata, tags) == metadata

\* parsed_metadata.retain(|k, _| valid_tags.contains(k)) under `if let Some`
Retain(metadata, tags) ==
    IF ~tags.some THEN metadata
    ELSE [k \in {x \in DOMAIN metadata : Contains(tags.tags, x)} |->
             metadata[k]]

\* impl Display for MetadataError
DisplayError(line) ==
    <<"I", "m", "p", "r", "o", "p", "e", "r", "l", "y", " ", "f", "o", "r",
      "m", "a", "t", "t", "e", "d", " ", "m", "e", "t", "a", "d", "a", "t",
      "a", " ", "l", "i", "n", "e", ":", " ", "'">> \o line \o <<"'">>

\* format!("Error parsing metadata in chapter '{}': {}", chap.name, e)
ErrorMsg(name, line) ==
    <<"E", "r", "r", "o", "r", " ", "p", "a", "r", "s", "i", "n", "g", " ",
      "m", "e", "t", "a", "d", "a", "t", "a", " ", "i", "n", " ", "c", "h",
      "a", "p", "t", "e", "r", " ", "'">> \o name \o <<"'", ":", " ">>
    \o DisplayError(line)

Chapter(name, content) ==
    [kind |-> "Chapter", name |-> name, content |-> content]

\* BookItem::Separator: an item the closure leaves alone
Separator == [kind |-> "Separator", name |-> <<>>, content |-> <<>>]

NoStep ==
    [kind |-> "none", metadata |-> EmptyMap, kept |-> EmptyMap,
     html |-> <<>>, body |-> <<>>, line |-> <<>>]

----------------------------------------------------------------------------
(* The inputs: chapter texts, books and configurations *)

DelimLine == <<"-", "-", "-">>
BlankLine == <<>>
\* key a, value b
LineAB == <<"a", ":", "b">>
\* key a again, value c, whitespace around the key and around the value
LineAC == <<" ", "a", " ", ":", " ", "c", " ">>
\* no colon
LineY == <<" ", "y">>
\* nothing after the colon
LineNoValue == <<"a", ":">>
\* only whitespace after the colon
LineBlankValue == <<"a", ":", " ">>
\* the title, its value every character encode_safe replaces
LineTitle == <<"t", "i", "t", "l", "e", ":", "<", "&", "/", ">", "\"", "'">>

DocLines ==
    {DelimLine, BlankLine, LineAB, LineAC, LineY, LineNoValue,
     LineBlankValue, LineTitle}

SeqsUpTo(S, n) == UNION {[1..k -> S] : k \in 0..n}

\* the texts of at most MaxLines lines of DocLines
LineDocs == {Join(ls, <<"\n">>) : ls \in SeqsUpTo(DocLines, MaxLines)}

DocHello ==
    <<"-", "-", "-", "\n", "t", "i", "t", "l", "e", ":", " ", "H",
      "e", "l", "l", "o", "\n", "-", "-", "-", "\n", "B", "o",
      "d", "y", " ", "t", "e", "x", "t", ".">>
OutHello ==
    <<"<", "t", "i", "t", "l", "e", ">", "H", "e", "l", "l", "o",
      "<", "/", "t", "i", "t", "l", "e", ">", "\n", "\n", "B",
      "o", "d", "y", " ", "t", "e", "x", "t", ".">>
DocBadLine ==
    <<"-", "-", "-", "\n", "b", "a", "d", " ", "l", "i", "n", "e",
      "\n", "-", "-", "-", "\n", "B", "o", "d", "y", ".">>
DocInline ==
    <<"x", "-", "-", "-", "k", ":", "<", "/", ">", "-", "-", "-", "y">>
DocFour == <<"-", "-", "-", "-">>
DocCRLF ==
    <<"-", "-", "-", "\r", "\n", "a", ":", "b", "\r", "\n", "-", "-",
      "-", "\r", "\n", "x">>
DocTwoBlocks ==
    <<"-", "-", "-", "\n", "a", ":", "b", "\n", "-", "-", "-", "\n",
      "x", "\n", "-", "-", "-", "\n", "y", "\n", "-", "-", "-">>
DocIndented == <<" ", " ", " ", " ", "x">>
DocBadY ==
    <<"-", "-", "-", " ", "y", "\n", "a", ":", "b", "-", "-", "-">>
DocAuthor ==
    <<"-", "-", "-", "\n", "t", "i", "t", "l", "e", ":", " ", "T",
      "\n", "a", "u", "t", "h", "o", "r", ":", " ", "A", "\n",
      "-", "-", "-", "\n", "x">>

DocMixed ==
    <<"-", "-", "-", "\n", "a", ":", " ", "b", "\n", " ", "y", " ", "\n",
      "b", "a", "d", " ", "l", "i", "n", "e", "\n", "c", ":", " ", "d",
      "\n", "-", "-", "-", "\n", "B", "o", "d", "y", ".">>

\* a table: hyphen runs inside a line and no delimiter line
DocTable ==
    <<"|", "a", "|", "b", "|", "\n", "|", "-", "-", "-", "|", "-", "-",
      "-", "|", "\n", "|", "1", "|", "2", "|">>
\* a block whose value has a hyphen run
DocDashValue ==
    <<"-", "-", "-", "\n", "k", ":", " ", "a", "-", "-", "-", "b", "\n",
      "-", "-", "-", "\n", "x">>
\* a block with a value that has a colon and a line that starts with one
DocColons ==
    <<"-", "-", "-", "\n", "k", ":", " ", "v", ":", "w", "\n", ":", "a",
      ":", "b", "\n", "-", "-", "-", "\n", "x">>

ExtraDocs ==
    {DocHello, DocBadLine, DocInline, DocFour, DocCRLF, DocTwoBlocks,
     DocIndented, DocBadY, DocAuthor, DocMixed, DocTable, DocDashValue,
     DocColons}

Docs == LineDocs \cup ExtraDocs

NameOne == <<"c", "1">>
NameTwo == <<"c", "2">>
Names == {NameOne, NameTwo}

\* the chapter texts of the books of several items
ChapterDocs == {DocHello, DocBadLine, DocBadY, DocIndented, DocAuthor}

Items ==
    {Separator} \cup {Chapter(n, d) : n \in Names, d \in ChapterDocs}

Books ==
    {<<Chapter(NameOne, d)>> : d \in Docs} \cup SeqsUpTo(Items, MaxItems)

\* no valid-tags configured, or the list ["title"]
AllowLists == {NoTags, SomeTags(<<Title>>)}

----------------------------------------------------------------------------
(* The state machine of run *)

Init ==
    /\ book \in Books
    /\ orig = book
    /\ valid_tags \in AllowLists
    /\ continue_on_error \in BOOLEAN
    /\ pos = 0
    /\ errors = <<>>
    /\ step = NoStep
    /\ ret = [tag |-> "Running", msg |-> <<>>]

Visiting == ret.tag = "Running" /\ pos < Len(book)

\* the closure on an item that is not a chapter
VisitOther ==
    /\ Visiting
    /\ book[pos + 1].kind # "Chapter"
    /\ pos' = pos + 1
    /\ step' = [NoStep EXCEPT !.kind = "other"]
    /\ UNCHANGED <<book, orig, valid_tags, continue_on_error, errors, ret>>

\* a new content without the line break after the tags
NewContentNoBreak(kept, html_tags, modified_content) ==
    IF DOMAIN kept # {}
    THEN html_tags \o modified_content
    ELSE modified_content

\* the new content of a chapter whose parse succeeded
NewContent(kept, html_tags, modified_content) ==
    IF DOMAIN kept # {}
    THEN html_tags \o <<"\n">> \o modified_content
    ELSE modified_content

\* the closure on a chapter, the Ok arm
ChapterOk ==
    /\ Visiting
    /\ book[pos + 1].kind = "Chapter"
    /\ LET chap == book[pos + 1]
           r == parse_metadata(chap.content, continue_on_error)
           kept == Retain(r.metadata, valid_tags)
       IN  /\ r.ok
           /\ \E order \in Orders(DOMAIN kept) :
                LET html_tags == metadata_to_html(kept, order) IN
                /\ book' = [book EXCEPT ![pos + 1].content =
                                NewContent(kept, html_tags, r.body)]
                /\ step' = [kind |-> "ok", metadata |-> r.metadata,
                            kept |-> kept, html |-> html_tags,
                            body |-> r.body, line |-> <<>>]
    /\ pos' = pos + 1
    /\ UNCHANGED <<orig, valid_tags, continue_on_error, errors, ret>>

\* an Err arm that ends the traversal of the book
ChapterErrStop ==
    /\ Visiting
    /\ book[pos + 1].kind = "Chapter"
    /\ LET chap == book[pos + 1]
           r == parse_metadata(chap.content, continue_on_error)
       IN  /\ ~r.ok
           /\ errors' = Append(errors, ErrorMsg(chap.name, r.line))
           /\ step' = [NoStep EXCEPT !.kind = "err", !.line = r.line]
    /\ pos' = Len(book)
    /\ UNCHANGED <<book, orig, valid_tags, continue_on_error, ret>>

\* an Err arm that stores the text without its block
ChapterErrStripped ==
    /\ Visiting
    /\ book[pos + 1].kind = "Chapter"
    /\ LET chap == book[pos + 1]
           r == parse_metadata(chap.content, continue_on_error)
       IN  /\ ~r.ok
           /\ errors' = Append(errors, ErrorMsg(chap.name, r.line))
           /\ step' = [NoStep EXCEPT !.kind = "err", !.line = r.line]
           /\ book' = [book EXCEPT ![pos + 1].content =
                           TrimStart(ReplaceBlock(chap.content))]
    /\ pos' = pos + 1
    /\ UNCHANGED <<orig, valid_tags, continue_on_error, ret>>

\* the closure on a chapter, the Err arm
ChapterErr ==
    /\ Visiting
    /\ book[pos + 1].kind = "Chapter"
    /\ LET chap == book[pos + 1]
           r == parse_metadata(chap.content, continue_on_error)
       IN  /\ ~r.ok
           /\ errors' = Append(errors, ErrorMsg(chap.name, r.line))
           /\ step' = [NoStep EXCEPT !.kind = "err", !.line = r.line]
    /\ pos' = pos + 1
    /\ UNCHANGED <<book, orig, valid_tags, continue_on_error, ret>>

\* if errors.is_empty() { Ok(book) }
ReturnOk ==
    /\ ret.tag = "Running"
    /\ pos = Len(book)
    /\ errors = <<>>
    /\ ret' = [tag |-> "Ok", msg |-> <<>>]
    /\ UNCHANGED <<book, orig, valid_tags, continue_on_error, pos, errors,
                   step>>

\* a return that carries the first message only
ReturnErrFirst ==
    /\ ret.tag = "Running"
    /\ pos = Len(book)
    /\ errors # <<>>
    /\ ret' = [tag |-> "Err", msg |-> errors[1]]
    /\ UNCHANGED <<book, orig, valid_tags, continue_on_error, pos, errors,
                   step>>

\* else { Err(errors.join("\n")) }
ReturnErr ==
    /\ ret.tag = "Running"
    /\ pos = Len(book)
    /\ errors # <<>>
    /\ ret' = [tag |-> "Err", msg |-> Join(errors, <<"\n">>)]
    /\ UNCHANGED <<book, orig, valid_tags, continue_on_error, pos, errors,
                   step>>

Next ==
    \/ VisitOther
    \/ ChapterOk
    \/ ChapterErr
    \/ ReturnOk
    \/ ReturnErr

Spec == Init /\ [][Next]_vars

TypeOK ==
    /\ pos \in 0..Len(book)
    /\ Len(book) = Len(orig)
    /\ ret.tag \in {"Running", "Ok", "Err"}

----------------------------------------------------------------------------
(* What the properties speak about: the chapter the closure was last       *)
(* called on, its text before the call and after it                        *)

Parsed == step.kind = "ok"
Failed == step.kind = "err"
Called == Parsed \/ Failed

Before == orig[pos].content
After == book[pos].content

HasBlock(text) == METADATA_BLOCK_RE(text).found

\* the lines of the block of the text the closure was called on
BlockLines == Lines(BlockInterior(Before))

Blank(l) == \A i \in DOMAIN l : l[i] \in WS

\* the lines of the block that are not blank and have no key: value shape
MalformedAt == {i \in DOMAIN BlockLines :
                    ~Blank(BlockLines[i]) /\ ~LineMatches(BlockLines[i])}

\* the lines of the block that have the key: value shape
WellFormedAt == {i \in DOMAIN BlockLines :
                    ~Blank(BlockLines[i]) /\ LineMatches(BlockLines[i])}

KeyOf(l) == Trim(LineGroup1(l))
ValueOf(l) == Trim(LineGroup2(l))

KeysOfBlock == {KeyOf(BlockLines[i]) : i \in WellFormedAt}

\* the last well-formed line that has the key k
LastAt(k) ==
    CHOOSE i \in WellFormedAt :
        /\ KeyOf(BlockLines[i]) = k
        /\ \A j \in WellFormedAt : KeyOf(BlockLines[j]) = k => j <= i

----------------------------------------------------------------------------
\* C1: a chapter text without a delimiter block is parsed to the empty
\* mapping and a body equal to the text, and run leaves the chapter's
\* content equal to what it was.
C1_NoBlockUnchanged ==
    (Called /\ ~HasBlock(Before)) =>
        /\ Parsed
        /\ step.metadata = EmptyMap
        /\ step.body = Before
        /\ After = Before

\* C2: when the block has a malformed line, the strict policy fails with
\* the exact text of the first malformed line and no mapping, and the
\* tolerant policy succeeds with the mapping of exactly the well-formed
\* lines.
C2_MalformedLine ==
    (Called /\ HasBlock(Before) /\ MalformedAt # {}) =>
        IF continue_on_error
        THEN /\ Parsed
             /\ DOMAIN step.metadata = KeysOfBlock
             /\ \A k \in KeysOfBlock :
                    step.metadata[k] = ValueOf(BlockLines[LastAt(k)])
        ELSE /\ Failed
             /\ step.line = BlockLines[Least(MalformedAt)]
             /\ step.metadata = EmptyMap

\* a strict failure on a block with a well-formed line and two different
\* malformed lines, the first one with whitespace around its text
C2_Witness ==
    /\ Failed
    /\ WellFormedAt # {}
    /\ \E i, j \in MalformedAt :
            /\ i < j
            /\ BlockLines[i] # BlockLines[j]
            /\ Trim(BlockLines[i]) # BlockLines[i]

\* C3: a key that occurs on several well-formed lines has one entry, with
\* the value of its last occurrence, and the mapping has as many entries as
\* the block has distinct keys.
C3_LastWins ==
    (Parsed /\ HasBlock(Before)) =>
        /\ Cardinality(DOMAIN step.metadata) = Cardinality(KeysOfBlock)
        /\ \A i \in WellFormedAt :
              LET k == KeyOf(BlockLines[i]) IN
              /\ k \in DOMAIN step.metadata
              /\ step.metadata[k] = ValueOf(BlockLines[LastAt(k)])

\* a key on two well-formed lines with different values
C3_Witness ==
    /\ Parsed
    /\ HasBlock(Before)
    /\ \E i, j \in WellFormedAt :
            /\ i < j
            /\ KeyOf(BlockLines[i]) = KeyOf(BlockLines[j])
            /\ ValueOf(BlockLines[i]) # ValueOf(BlockLines[j])

----------------------------------------------------------------------------
(* Reading markup back: what of a text a browser takes as markup *)

Entities ==
    {<<"&", "a", "m", "p", ";">>, <<"&", "l", "t", ";">>,
     <<"&", "g", "t", ";">>, <<"&", "q", "u", "o", "t", ";">>,
     <<"&", "#", "x", "2", "7", ";">>, <<"&", "#", "x", "2", "F", ";">>}

StartsWith(t, p) == Len(t) >= Len(p) /\ SubSeq(t, 1, Len(p)) = p

\* the entity the text t has at position i, <<>> when it has none
EntityAt(t, i) ==
    LET rest == SubSeq(t, i, Len(t))
        es == {e \in Entities : StartsWith(rest, e)}
    IN  IF es = {} THEN <<>> ELSE CHOOSE e \in es : TRUE

\* the characters of t that act as markup: <, >, the quotes, the slash,
\* and an ampersand that does not begin an entity
RawAt(t) ==
    {i \in DOMAIN t :
        \/ t[i] \in {"<", ">", "\"", "'", "/"}
        \/ t[i] = "&" /\ EntityAt(t, i) = <<>>}

\* the character an entity stands for
Named(e) ==
    CASE e = <<"&", "a", "m", "p", ";">> -> "&"
      [] e = <<"&", "l", "t", ";">> -> "<"
      [] e = <<"&", "g", "t", ";">> -> ">"
      [] e = <<"&", "q", "u", "o", "t", ";">> -> "\""
      [] e = <<"&", "#", "x", "2", "7", ";">> -> "'"
      [] e = <<"&", "#", "x", "2", "F", ";">> -> "/"

\* the text an escaped text stands for
RECURSIVE Decode(_)
Decode(t) ==
    IF t = <<>> THEN <<>>
    ELSE LET e == EntityAt(t, 1) IN
         IF e = <<>> THEN <<Head(t)>> \o Decode(Tail(t))
         ELSE <<Named(e)>> \o Decode(SubSeq(t, Len(e) + 1, Len(t)))

\* what surrounds the value in the tag of the key k
Opening(k) ==
    IF k = Title THEN <<"<", "t", "i", "t", "l", "e", ">">>
    ELSE <<"<", "m", "e", "t", "a", " ", "n", "a", "m", "e", "=", "\"">>
         \o k \o <<"\"", " ", "c", "o", "n", "t", "e", "n", "t", "=", "\"">>
Closing(k) ==
    IF k = Title THEN <<"<", "/", "t", "i", "t", "l", "e", ">">>
    ELSE <<"\"", ">">>

\* the tag line l is the tag of key k around the text `inner`
IsTagOf(l, k, inner) == l = Opening(k) \o inner \o Closing(k)

\* the part of the tag line l that stands where the value of k goes
InnerOf(l, k) == SubSeq(l, Len(Opening(k)) + 1, Len(l) - Len(Closing(k)))

----------------------------------------------------------------------------
\* C4: in the text metadata_to_html produces, a value contributes no raw
\* <, >, &, " or ' and no raw slash: every entry has its tag line, and
\* what stands for the value in it has no markup character and reads back
\* as the value.
C4_ValuesEscaped ==
    (Parsed /\ DOMAIN step.kept # {}) =>
        LET tags == Lines(step.html) IN
        /\ Len(tags) = Cardinality(DOMAIN step.kept)
        /\ \A k \in DOMAIN step.kept :
              \E i \in DOMAIN tags :
                 LET inner == InnerOf(tags[i], k) IN
                 /\ IsTagOf(tags[i], k, inner)
                 /\ RawAt(inner) = {}
                 /\ Decode(inner) = step.kept[k]

\* a rendered value that has each of the six characters
C4_Witness ==
    /\ Parsed
    /\ \E k \in DOMAIN step.kept :
          {"<", ">", "&", "\"", "'", "/"} \subseteq
              {step.kept[k][i] : i \in DOMAIN step.kept[k]}

IsInfix(p, t) ==
    \E i \in 0..(Len(t) - Len(p)) : SubSeq(t, i + 1, i + Len(p)) = p

Quoted(t) == <<"'">> \o t \o <<"'">>

\* the first line of the block of `text` that is not blank and has no
\* key: value shape
FirstBadLine(text) ==
    LET ls == Lines(BlockInterior(text))
        bad == {i \in DOMAIN ls : ~Blank(ls[i]) /\ ~LineMatches(ls[i])}
    IN  ls[Least(bad)]

\* the chapters run has called the closure on and whose parse fails
FailedAt ==
    {i \in 1..pos :
        /\ orig[i].kind = "Chapter"
        /\ ~parse_metadata(orig[i].content, continue_on_error).ok}

\* the number of failed chapters up to the i-th item
Rank(i) == Cardinality({j \in FailedAt : j <= i})

\* C5: a chapter whose parse fails keeps its content as it was, and one
\* message is recorded for it, which names the chapter and the offending
\* line; a chapter's content is never partially transformed: it is what it
\* was or the whole text the Ok arm builds.
C5_FailureLeavesContent ==
    /\ Failed =>
          /\ After = Before
          /\ Len(errors) = Cardinality(FailedAt)
          /\ IsInfix(Quoted(orig[pos].name), errors[Len(errors)])
          /\ IsInfix(Quoted(FirstBadLine(Before)), errors[Len(errors)])
    /\ \A i \in DOMAIN book :
          \/ book[i].content = orig[i].content
          \/ /\ i <= pos
             /\ i \notin FailedAt
             /\ LET r == parse_metadata(orig[i].content, continue_on_error)
                    kept == Retain(r.metadata, valid_tags)
                IN  \E o \in Orders(DOMAIN kept) :
                       book[i].content =
                           NewContent(kept, metadata_to_html(kept, o),
                                      TrimStart(ReplaceBlock(orig[i].content)))

\* two failed chapters whose texts the Ok arm would have changed
C5_Witness ==
    /\ Failed
    /\ After = Before
    /\ TrimStart(ReplaceBlock(Before)) # Before
    /\ Len(errors) = 2

\* C6: run returns success exactly when no chapter's parse failed, always
\* under the tolerant policy, and otherwise a failure whose message has the
\* chapters' messages, one per failed chapter in the order of the
\* chapters, with a newline between them.
C6_ReturnValue ==
    (ret.tag # "Running") =>
        /\ pos = Len(book)
        /\ (ret.tag = "Ok") <=> (FailedAt = {})
        /\ continue_on_error => ret.tag = "Ok"
        /\ (ret.tag = "Err") =>
              LET msgs == SplitNL(ret.msg) IN
              /\ Len(msgs) = Cardinality(FailedAt)
              /\ \A i \in FailedAt :
                    LET m == msgs[Rank(i)] IN
                    /\ IsInfix(Quoted(orig[i].name), m)
                    /\ IsInfix(Quoted(FirstBadLine(orig[i].content)), m)
                    /\ m = errors[Rank(i)]
                    /\ m = ErrorMsg(orig[i].name,
                                    FirstBadLine(orig[i].content))

\* a failure of two chapters with different names and different lines
C6_Witness ==
    /\ ret.tag = "Err"
    /\ Len(errors) = 2
    /\ orig[1].name # orig[2].name
    /\ errors[1] # errors[2]
    /\ ~IsInfix(Quoted(orig[1].name), errors[2])

----------------------------------------------------------------------------
\* the text after the closing marker of the first block
AfterBlock(text) ==
    SubSeq(text, METADATA_BLOCK_RE(text).close + 3, Len(text))

\* C7 as stated: the content of a chapter that was processed successfully
\* has no pair of --- markers left, whatever the text was.
C7_NoMarkersLeft == Parsed => ~HasBlock(After)

\* C7 as amended: the first pair of --- markers is removed with the text
\* between them, and the content has a pair of markers left exactly when
\* the text after the closing marker of the first pair has one.
C7_FirstBlockRemoved ==
    Parsed =>
        /\ HasBlock(After) <=>
              (HasBlock(Before) /\ HasBlock(AfterBlock(Before)))
        /\ HasBlock(Before) =>
              Len(step.body) <= Len(Before) - Len(BlockInterior(Before)) - 6

\* a text with a later pair of markers, which is left in the content
C7_Witness ==
    /\ Parsed
    /\ HasBlock(Before)
    /\ HasBlock(After)
    /\ DOMAIN step.kept # {}

Members(tags) == {tags[i] : i \in DOMAIN tags}

\* what run did with the mapping of the chapter it last parsed
FilterRendered ==
    Parsed =>
        /\ ~valid_tags.some => step.kept = step.metadata
        /\ valid_tags.some =>
              /\ DOMAIN step.kept =
                    (DOMAIN step.metadata) \cap Members(valid_tags.tags)
              /\ \A k \in DOMAIN step.kept : step.kept[k] = step.metadata[k]
        /\ Len(Lines(step.html)) = Cardinality(DOMAIN step.kept)
        /\ \A k \in DOMAIN step.kept :
              \E i \in DOMAIN Lines(step.html) :
                 StartsWith(Lines(step.html)[i], Opening(k))
        /\ \A k \in (DOMAIN step.metadata) \ (DOMAIN step.kept) :
              \A i \in DOMAIN Lines(step.html) :
                 ~StartsWith(Lines(step.html)[i], Opening(k))
        /\ StartsWith(After, step.html)

\* C8: without an allow-list the parsed mapping is rendered as it is; with
\* one, exactly the entries whose key is in it are kept, their values
\* unchanged, no other key produces markup, and the allow-list is not
\* modified.
C8_AllowList ==
    /\ []FilterRendered
    /\ [][valid_tags' = valid_tags]_vars

\* the allow-list ["title"] on a block with the title and another key
C8_Witness ==
    /\ Parsed
    /\ valid_tags = SomeTags(<<Title>>)
    /\ DOMAIN step.kept = {Title}
    /\ DOMAIN step.metadata # {Title}

\* C9: on a successful parse the content becomes the remaining body alone
\* when the filtered mapping is empty, and else the rendered tags, one
\* line break and the remaining body: DocHello becomes OutHello.
C9_NewContent ==
    Parsed =>
        /\ step.body = TrimStart(ReplaceBlock(Before))
        /\ DOMAIN step.kept = {} => After = step.body
        /\ DOMAIN step.kept # {} =>
              /\ After = step.html \o <<"\n">> \o step.body
              /\ step.html # <<>>
              /\ step.html[Len(step.html)] = "\n"
        /\ Before = DocHello => After = OutHello

\* the chapter of the example
C9_Witness ==
    /\ Parsed
    /\ Before = DocHello
    /\ After = OutHello

\* a line with the whitespace around its key and its value removed
Stripped(l) ==
    IF Blank(l) \/ ~LineMatches(l) THEN l
    ELSE KeyOf(l) \o <<":">> \o ValueOf(l)

\* a line with whitespace added around its key and its value
Padded(l) ==
    IF Blank(l) \/ ~LineMatches(l) THEN l
    ELSE <<" ">> \o KeyOf(l) \o <<" ", ":", " ">> \o ValueOf(l) \o <<" ">>

\* the text with the lines of its block replaced by `ls`
WithBlockLines(text, ls) ==
    LET m == METADATA_BLOCK_RE(text) IN
    SubSeq(text, 1, m.open + 2) \o Join(ls, <<"\n">>)
    \o SubSeq(text, m.close, Len(text))

\* C10: on a well-formed block, whitespace added or removed around the key
\* and around the value of its lines changes neither the outcome of
\* parse_metadata nor the mapping.
C10_WhitespaceInsensitive ==
    (Called /\ HasBlock(Before) /\ MalformedAt = {}) =>
        \A ls \in {[i \in DOMAIN BlockLines |-> Stripped(BlockLines[i])],
                   [i \in DOMAIN BlockLines |-> Padded(BlockLines[i])]} :
            LET r == parse_metadata(WithBlockLines(Before, ls),
                                    continue_on_error)
            IN  /\ r.ok = Parsed
                /\ r.metadata = step.metadata

----------------------------------------------------------------------------
(* Delimiter lines: the lines of a text that are exactly three hyphens *)

\* the lines of the text, without the "\r" of a "\r\n" ending
TextLines(text) ==
    LET p == SplitNL(text) IN [i \in DOMAIN p |-> StripCR(p[i])]

DelimiterLines(text) ==
    {i \in DOMAIN TextLines(text) : TextLines(text)[i] = Marker}

\* where the i-th line of the text starts
RECURSIVE LineStart(_, _)
LineStart(text, i) ==
    IF i = 1 THEN 1
    ELSE LineStart(text, i - 1) + Len(SplitNL(text)[i - 1]) + 1

\* the block that delimiter lines give: it opens at the first delimiter
\* line and closes at the next one
LineBlock(text) ==
    LET d == DelimiterLines(text) IN
    IF Cardinality(d) < 2 THEN [found |-> FALSE, open |-> 0, close |-> 0]
    ELSE [found |-> TRUE,
          open |-> LineStart(text, Least(d)),
          close |-> LineStart(text, Least(d \ {Least(d)}))]

\* C11: a block is recognised only between a line of exactly three hyphens
\* and the first later such line; that first block is what is parsed and
\* removed, and hyphen runs that are not delimiter lines neither open nor
\* close a block and stay in the body.
C11_DelimiterLines ==
    Called =>
        LET b == LineBlock(Before) IN
        IF b.found
        THEN LET r == ParseLines(
                          Lines(SubSeq(Before, b.open + 3, b.close - 1)),
                          EmptyMap, continue_on_error)
             IN  /\ r.ok = Parsed
                 /\ r.metadata = step.metadata
                 /\ r.line = step.line
                 /\ Parsed =>
                       step.body =
                           TrimStart(SubSeq(Before, 1, b.open - 1)
                                     \o SubSeq(Before, b.close + 3,
                                               Len(Before)))
        ELSE /\ Parsed
             /\ step.metadata = EmptyMap
             /\ step.body = TrimStart(Before)

----------------------------------------------------------------------------
Colons(l) == {p \in DOMAIN l : l[p] = ":"}

\* the text of the line before its first colon and the text after it
BeforeColon(l) == Trim(SubSeq(l, 1, Least(Colons(l)) - 1))
AfterColon(l) == Trim(SubSeq(l, Least(Colons(l)) + 1, Len(l)))

\* the lines of the block after the i-th that have a colon and the same
\* text before their first colon
LaterSameKey(i) ==
    {j \in DOMAIN BlockLines :
        /\ j > i
        /\ ~Blank(BlockLines[j])
        /\ Colons(BlockLines[j]) # {}
        /\ BeforeColon(BlockLines[j]) = BeforeColon(BlockLines[i])}

\* C12: a non-blank line of the block is malformed exactly when it has no
\* colon; a line with a colon gives the entry whose key is the text before
\* the first colon and whose value is all the text after it, both trimmed.
C12_FirstColonSplit ==
    (Called /\ HasBlock(Before)) =>
        \A i \in DOMAIN BlockLines :
            LET l == BlockLines[i] IN
            ~Blank(l) =>
                /\ (Colons(l) = {}) <=> (i \in MalformedAt)
                /\ (Colons(l) # {} /\ Parsed) =>
                      /\ BeforeColon(l) \in DOMAIN step.metadata
                      /\ LaterSameKey(i) = {} =>
                            step.metadata[BeforeColon(l)] = AfterColon(l)

----------------------------------------------------------------------------
IsChapter(i) == orig[i].kind = "Chapter"

\* C13 as stated: a chapter's final content depends only on its own
\* initial content, the allow-list and the policy flag: chapters of equal
\* initial content end with equal content, wherever they are in the book.
C13_SameContent ==
    \A i, j \in 1..pos :
        (IsChapter(i) /\ IsChapter(j)
            /\ orig[i].content = orig[j].content) =>
                book[i].content = book[j].content

\* the tag lines and the rest of a content whose remaining body is `body`
TagPart(content, body) == SubSeq(content, 1, Len(content) - Len(body))
BodyPart(content, body) ==
    SubSeq(content, Len(content) - Len(body) + 1, Len(content))

\* two contents with the same remaining body and the same tag lines, in
\* whatever order the tag lines are
SameUpToTagOrder(a, b, body) ==
    /\ Len(a) = Len(b)
    /\ BodyPart(a, body) = body
    /\ BodyPart(b, body) = body
    /\ LET ta == Lines(TagPart(a, body))
           tb == Lines(TagPart(b, body))
       IN  /\ Len(ta) = Len(tb)
           /\ {ta[k] : k \in DOMAIN ta} = {tb[k] : k \in DOMAIN tb}

\* the contents run can leave in a chapter whose content was `text`
Outcomes(text) ==
    LET r == parse_metadata(text, continue_on_error)
        kept == Retain(r.metadata, valid_tags)
    IN  IF ~r.ok THEN {text}
        ELSE {NewContent(kept, metadata_to_html(kept, o), r.body) :
                 o \in Orders(DOMAIN kept)}

\* C13 as amended: a failed chapter does not stop the traversal, every
\* chapter run has reached is left with a content that its own initial
\* content, the allow-list and the policy flag determine up to the order of
\* its tag lines, the chapters not reached yet are untouched, and the
\* messages are in the order of the chapters.
C13_Independent ==
    /\ ret.tag # "Running" => pos = Len(book)
    /\ \A i \in DOMAIN book :
          /\ book[i].name = orig[i].name
          /\ book[i].kind = orig[i].kind
          /\ i > pos => book[i] = orig[i]
          /\ (i <= pos /\ IsChapter(i)) =>
                book[i].content \in Outcomes(orig[i].content)
    /\ \A i, j \in 1..pos :
          (i < j /\ IsChapter(i) /\ IsChapter(j)
              /\ orig[i].content = orig[j].content) =>
                  \/ /\ i \in FailedAt
                     /\ j \in FailedAt
                     /\ book[i].content = book[j].content
                  \/ /\ i \notin FailedAt
                     /\ j \notin FailedAt
                     /\ SameUpToTagOrder(
                            book[i].content, book[j].content,
                            TrimStart(ReplaceBlock(orig[i].content)))
    /\ Len(errors) = Cardinality(FailedAt)
    /\ \A i \in FailedAt :
          IsInfix(Quoted(orig[i].name), errors[Rank(i)])

\* a failed chapter followed by a chapter that run has transformed
C13_Witness ==
    /\ ret.tag = "Err"
    /\ Len(book) = 2
    /\ 1 \in FailedAt
    /\ 2 \notin FailedAt
    /\ IsChapter(2)
    /\ book[2].content # orig[2].content

====
